---- MODULE Spec2Model ----
(***************************************************************************)
(* pandocwatch.py: watch the working directory and re-run pandoc when a    *)
(* watched entry's modification time advances.                            *)
(*                                                                         *)
(* Strings the program inspects character by character (entry names, the  *)
(* --exclude value, the pandoc options) are sequences of one-character     *)
(* strings, so that split, startswith, endswith and join are computed.     *)
(***************************************************************************)
EXTENDS Integers, Sequences, FiniteSets, TLC

VARIABLES
    env_path,                  \* os.environ["PATH"]: per directory, whether it holds an executable pandoc
    argv_exclusions,           \* args[0].exclusions: the -e/--exclude value (the default when not given)
    argv_options,              \* args[1]: the arguments argparse does not know, in order
    main_pc,                   \* position of the main thread in main()
    exit_status,               \* the process's exit status, -1 while it runs
    command,                   \* Configuration.command
    dir_content_and_time,      \* Configuration.dir_content_and_time
    excluded_file_extensions,  \* Configuration.excluded_file_extensions
    excluded_folders,          \* Configuration.excluded_folders
    snapshots,                 \* calls of watched_elements() made by main() that returned
    observers,                 \* Observer objects scheduled and started by main()
    fs,                        \* the working directory: name -> st_mtime, Absent when not listed
    pending,                   \* modified events queued by the observer, not yet dispatched
    obs_pc,                    \* position of the observer's dispatching thread
    local_dir_content,         \* on_modified's local, while the handler is on the stack
    handled,                   \* how the most recent on_modified call went: its found flag, or that it raised
    recompiles,                \* recompile() calls made by the most recent on_modified call
    advanced,                  \* the paths whose time the most recent on_modified call found greater than held
    returncode,                \* exit status of the subprocess run by the most recent recompile()
    running                    \* subprocesses started by recompile() that have not ended

vars == << env_path, argv_exclusions, argv_options, main_pc, exit_status, command,
           dir_content_and_time, excluded_file_extensions, excluded_folders,
           snapshots, observers, fs, pending, obs_pc, local_dir_content, handled,
           recompiles, advanced, returncode, running >>

(***************************************************************************)
(* Bounds of the model.                                                    *)
(***************************************************************************)
\* modification times are 0..MaxTime
MaxTime == 1
\* the observer's event queue saturates at MaxPending events
MaxPending == 1
\* exclusion strings of the configuration specification have at most MaxLen characters
MaxLen == 4
\* main() is not followed beyond MaxObservers observers
MaxObservers == 2

Absent == -1
Times  == 0..MaxTime

(***************************************************************************)
(* Character sequences.                                                    *)
(***************************************************************************)
a_md   == << "a", ".", "m", "d" >>
b_pdf  == << "b", ".", "p", "d", "f" >>
B_PDF  == << "B", ".", "P", "D", "F" >>
build  == << "b", "u", "i", "l", "d" >>

\* the entries the working directory may hold
Names == { a_md, b_pdf, B_PDF, build }

Range(s) == { s[i] : i \in 1..Len(s) }

\* str.startswith(".")
StartsWithDot(value) == Len(value) >= 1 /\ value[1] = "."

\* str.endswith(suffix)
EndsWith(path, suffix) ==
    /\ Len(suffix) <= Len(path)
    /\ SubSeq(path, Len(path) - Len(suffix) + 1, Len(path)) = suffix

\* index of the first sep in s from position i on, 0 when there is none
RECURSIVE IndexOf(_, _, _)
IndexOf(s, sep, i) ==
    IF i > Len(s) THEN 0
    ELSE IF s[i] = sep THEN i
    ELSE IndexOf(s, sep, i + 1)

\* str.split(sep): the pieces between the separators, empty pieces kept
RECURSIVE Split(_, _)
Split(s, sep) ==
    LET i == IndexOf(s, sep, 1)
    IN  IF i = 0 THEN << s >>
        ELSE << SubSeq(s, 1, i - 1) >> \o Split(SubSeq(s, i + 1, Len(s)), sep)

\* sep.join(parts)
RECURSIVE Join(_, _)
Join(parts, sep) ==
    IF Len(parts) = 0 THEN << >>
    ELSE IF Len(parts) = 1 THEN parts[1]
    ELSE parts[1] \o << sep >> \o Join(Tail(parts), sep)

\* the sequences over S that list every element of S once
RECURSIVE Perms(_)
Perms(S) ==
    IF S = {} THEN { << >> }
    ELSE UNION { { << x >> \o p : p \in Perms(S \ { x }) } : x \in S }

Min(x, y) == IF x <= y THEN x ELSE y
(***************************************************************************)
(* Inputs: the environment and the command line.                           *)
(***************************************************************************)
\* PATH with no directory, without pandoc, and with pandoc in its second directory
PathInputs == { << >>, << FALSE >>, << FALSE, TRUE >> }

\* ".pdf,.tex,doc,bin,common", the default of --exclude
DefaultExclusions ==
    << ".", "p", "d", "f", ",", ".", "t", "e", "x", ",", "d", "o", "c", ",",
       "b", "i", "n", ",", "c", "o", "m", "m", "o", "n" >>

\* -e .pdf,build
PdfBuildExclusions ==
    << ".", "p", "d", "f", ",", "b", "u", "i", "l", "d" >>

ExclusionInputs == { PdfBuildExclusions }

\* no option, one empty argument, and "-o x"
OptionInputs == { << >>, << << >> >>, << << "-", "o" >>, << "x" >> >> }

(***************************************************************************)
(* which(program)                                                          *)
(***************************************************************************)
\* index of the first PATH directory whose pandoc is_exe, 0 for None
RECURSIVE which(_, _)
which(path, i) ==
    IF i > Len(path) THEN 0
    ELSE IF path[i] THEN i
    ELSE which(path, i + 1)

(***************************************************************************)
(* exit(): the site builtin called with no argument raises                 *)
(* SystemExit(None), and the interpreter ends with status 0.               *)
(***************************************************************************)
exit == 0

(***************************************************************************)
(* setup_config(args_parser)                                               *)
(***************************************************************************)
\* [value for value in exclusions if value.startswith(".")]
ExtensionsOf(exclusions) == SelectSeq(exclusions, StartsWithDot)

SymmetricDifference(A, B) == (A \ B) \cup (B \ A)

\* list(set(exclusions).symmetric_difference(set(config.excluded_file_extensions)));
\* the list is only ever tested for membership, and is kept as the set it lists
\* the same without the difference
FoldersAll(exclusions, extensions) == Range(exclusions)
FoldersOf(exclusions, extensions) ==
    SymmetricDifference(Range(exclusions), Range(extensions))

\* ' '.join(args[1])
PandocOptions(options) == Join(options, " ")

\* "pandoc " + pandoc_options
PandocCommand(pandoc_options) ==
    << "p", "a", "n", "d", "o", "c", " " >> \o pandoc_options

\* lines 164-167 left out
OptionsAlwaysGiven(pandoc_options) == FALSE
\* if not pandoc_options: ... exit()
OptionsMissing(pandoc_options) == pandoc_options = << >>

(***************************************************************************)
(* Configuration.watched_elements(), over the order os.listdir() returns   *)
(***************************************************************************)
\* lines 68-72 with a loop that marks no path
PathToRemoveNever(path, extensions) == FALSE
\* lines 68-72: the loop over the excluded extensions
PathToRemove(path, extensions) ==
    \E i \in 1..Len(extensions) : EndsWith(path, extensions[i])

\* line 73 without its test of the excluded names
KeptWhateverName(path, extensions, folders) == ~PathToRemove(path, extensions)
\* line 73
Kept(path, extensions, folders) ==
    ~PathToRemove(path, extensions) /\ path \notin folders

\* the enumeration with the break of line 72 leaving the loop over the listing
RECURSIVE watched_elements_break(_, _, _, _)
watched_elements_break(listing, dir, extensions, folders) ==
    IF Len(listing) = 0 THEN << >>
    ELSE LET path == Head(listing)
         IN  IF PathToRemove(path, extensions) THEN << >>
             ELSE IF path \notin folders
             THEN << << path, dir[path] >> >>
                      \o watched_elements_break(Tail(listing), dir, extensions, folders)
             ELSE watched_elements_break(Tail(listing), dir, extensions, folders)

RECURSIVE watched_elements(_, _, _, _)
watched_elements(listing, dir, extensions, folders) ==
    IF Len(listing) = 0 THEN << >>
    ELSE LET path == Head(listing)
             rest == watched_elements(Tail(listing), dir, extensions, folders)
         IN  IF Kept(path, extensions, folders)
             THEN << << path, dir[path] >> >> \o rest
             ELSE rest

\* os.listdir(os.getcwd()): the entries, in an order the filesystem chooses
Listed(dir) == { n \in Names : dir[n] # Absent }
Listings(dir) == Perms(Listed(dir))

\* what watched_elements() may return, over the orders of the listing
Snapshots(dir, extensions, folders) ==
    { watched_elements(listing, dir, extensions, folders) : listing \in Listings(dir) }

(***************************************************************************)
(* ChangeHandler.on_modified: the scan of lines 107-119                    *)
(***************************************************************************)
\* line 111 with >= for >
AdvancedOrEqual(m_time, bm_time) == m_time >= bm_time
\* line 111
Advanced(m_time, bm_time) == m_time > bm_time

\* lines 109-117: the inner loop over the held snapshot for one fresh pair;
\* TRUE when it reaches the body of line 111
\* the inner loop without the test of line 110
RECURSIVE InnerLoopAnyPath(_, _, _, _)
InnerLoopAnyPath(path, m_time, held, j) ==
    IF j > Len(held) THEN FALSE
    ELSE IF Advanced(m_time, held[j][2]) THEN TRUE
    ELSE InnerLoopAnyPath(path, m_time, held, j + 1)

RECURSIVE InnerLoop(_, _, _, _)
InnerLoop(path, m_time, held, j) ==
    IF j > Len(held) THEN FALSE
    ELSE IF path = held[j][1] /\ Advanced(m_time, held[j][2]) THEN TRUE
    ELSE InnerLoop(path, m_time, held, j + 1)

\* the paths of the fresh snapshot that the held snapshot has with a smaller
\* time: every pair for which line 111 holds, were the scan to stop at none
AdvancedPaths(local, held) ==
    { local[i][1] : i \in { k \in 1..Len(local) :
                               \E j \in 1..Len(held) :
                                   /\ local[k][1] = held[j][1]
                                   /\ local[k][2] > held[j][2] } }

\* the scan without its two breaks and with the snapshot stored after the loops
RECURSIVE OuterLoopNoBreak(_, _, _)
OuterLoopNoBreak(local, held, i) ==
    IF i > Len(local)
    THEN [ found |-> FALSE, recompiles |-> 0, dir_content_and_time |-> held ]
    ELSE LET rest == OuterLoopNoBreak(local, held, i + 1)
         IN  IF InnerLoop(local[i][1], local[i][2], held, 1)
             THEN [ found |-> TRUE, recompiles |-> rest.recompiles + 1,
                    dir_content_and_time |-> local ]
             ELSE rest

\* line 114 storing only the pair that advanced
StoredMerged(local, held, i) ==
    [ j \in 1..Len(held) |-> IF held[j][1] = local[i][1] THEN local[i] ELSE held[j] ]
\* line 114 left out
StoredNothing(local, held, i) == held
\* line 114: the fresh snapshot becomes the held one, whole
Stored(local, held, i) == local

\* lines 108-119: the outer loop from the i-th fresh pair on. The first pair
\* that advanced sets found, stores the fresh snapshot, calls recompile() once
\* and ends both loops.
RECURSIVE OuterLoop(_, _, _)
OuterLoop(local, held, i) ==
    IF i > Len(local)
    THEN [ found |-> FALSE, recompiles |-> 0, dir_content_and_time |-> held ]
    ELSE IF InnerLoop(local[i][1], local[i][2], held, 1)
         THEN [ found |-> TRUE, recompiles |-> 1,
                dir_content_and_time |-> Stored(local, held, i) ]
         ELSE OuterLoop(local, held, i + 1)
(***************************************************************************)
(* The initial state: the process has started, nothing has run.            *)
(***************************************************************************)
\* a.md, b.pdf and build exist, B.PDF does not
InitialDir ==
    [ n \in Names |-> IF n = B_PDF THEN Absent ELSE 0 ]

InitProcess ==
    /\ main_pc = "which"
    /\ exit_status = -1
    /\ command = << >>
    /\ dir_content_and_time = << >>
    /\ excluded_file_extensions = << >>
    /\ excluded_folders = {}
    /\ snapshots = 0
    /\ observers = 0
    /\ fs = InitialDir
    /\ pending = 0
    /\ obs_pc = "none"
    /\ local_dir_content = << >>
    /\ handled = "none"
    /\ recompiles = 0
    /\ advanced = {}
    /\ returncode = -1
    /\ running = 0

Init ==
    /\ env_path \in PathInputs
    /\ argv_exclusions \in ExclusionInputs
    /\ argv_options \in OptionInputs
    /\ InitProcess

inputs == << env_path, argv_exclusions, argv_options >>
config == << command, excluded_file_extensions, excluded_folders >>
handler == << pending, obs_pc, local_dir_content, handled, recompiles, advanced, returncode,
             running >>

(***************************************************************************)
(* main()                                                                  *)
(***************************************************************************)
\* lines 173-176
main_which ==
    /\ main_pc = "which"
    /\ IF which(env_path, 1) = 0
       THEN main_pc' = "exited" /\ exit_status' = exit
       ELSE main_pc' = "setup" /\ exit_status' = exit_status
    /\ UNCHANGED << inputs, config, dir_content_and_time, snapshots, observers, fs, handler >>

\* line 179: setup_config(build_args()), lines 151-169
setup_config ==
    /\ main_pc = "setup"
    /\ LET exclusions == Split(argv_exclusions, ",")
           extensions == ExtensionsOf(exclusions)
           pandoc_options == PandocOptions(argv_options)
       IN  /\ excluded_file_extensions' = extensions
           /\ excluded_folders' = FoldersOf(exclusions, extensions)
           /\ IF OptionsMissing(pandoc_options)
              THEN /\ main_pc' = "exited"
                   /\ exit_status' = exit
                   /\ command' = command
              ELSE /\ main_pc' = "snapshot"
                   /\ exit_status' = exit_status
                   /\ command' = PandocCommand(pandoc_options)
    /\ UNCHANGED << inputs, dir_content_and_time, snapshots, observers, fs, handler >>

\* line 180
main_snapshot ==
    /\ main_pc = "snapshot"
    /\ dir_content_and_time' \in Snapshots(fs, excluded_file_extensions, excluded_folders)
    /\ snapshots' = snapshots + 1
    /\ main_pc' = "loop"
    /\ UNCHANGED << inputs, config, exit_status, observers, fs, handler >>

\* line 180, when an entry that os.listdir() returned is gone by the time
\* line 74 stats it: os.stat raises, nothing catches it, the process ends
main_snapshot_raises ==
    /\ main_pc = "snapshot"
    /\ \E n \in Listed(fs) :
           /\ Kept(n, excluded_file_extensions, excluded_folders)
           /\ fs' = [ fs EXCEPT ![n] = Absent ]
    /\ main_pc' = "exited"
    /\ exit_status' = 1
    /\ UNCHANGED << inputs, config, dir_content_and_time, snapshots, observers, handler >>

\* lines 183-187: one pass of the outer loop up to observer.start()
main_observe ==
    /\ main_pc = "loop"
    /\ observers < MaxObservers
    /\ observers' = observers + 1
    /\ obs_pc' = "idle"
    /\ main_pc' = "watching"
    /\ UNCHANGED << inputs, config, exit_status, dir_content_and_time, snapshots, fs,
                    pending, local_dir_content, handled, recompiles, advanced, returncode,
                    running >>

\* lines 188-193: KeyboardInterrupt in the sleep loop; observer.stop()
main_interrupt ==
    /\ main_pc = "watching"
    /\ main_pc' = "stopping"
    /\ UNCHANGED << inputs, config, exit_status, dir_content_and_time, snapshots,
                    observers, fs, handler >>

\* where the outer loop goes on without the exit() of line 196
AfterStoppingLoops == "loop"
\* lines 195-196: exit() leaves the outer loop and the process
AfterStopping == "exited"

main_exit ==
    /\ main_pc = "stopping"
    /\ main_pc' = AfterStopping
    /\ exit_status' = IF AfterStopping = "exited" THEN exit ELSE exit_status
    /\ UNCHANGED << inputs, config, dir_content_and_time, snapshots, observers, fs, handler >>

\* a KeyboardInterrupt outside the try of lines 188-193 is not caught
main_interrupt_uncaught ==
    /\ main_pc \in { "which", "setup", "snapshot", "loop", "stopping" }
    /\ main_pc' = "exited"
    /\ \E status \in { 1, 130 } : exit_status' = status
    /\ UNCHANGED << inputs, config, dir_content_and_time, snapshots, observers, fs, handler >>

(***************************************************************************)
(* The observer's thread: it dispatches the queued events one at a time.   *)
(***************************************************************************)
\* what the thread does once recompile()'s subprocess has ended with
\* returncode rc, were CalledProcessError not caught
AfterCommandUncaught(rc) == IF rc = 0 THEN "idle" ELSE "dead"
\* lines 96-98 and 116-119: both outcomes print and return, the loops end
AfterCommand(rc) == "idle"

\* where the thread is while the subprocess runs, were recompile() to start
\* it and not wait for it
DuringCommandDetached == "idle"
\* lines 90-95: subprocess.check_output returns when the subprocess has ended
DuringCommand == "recompile"

\* the held snapshot once the command has ended, were it taken again then
HeldRefreshed(held) == Snapshots(fs, excluded_file_extensions, excluded_folders)
\* lines 114-119: the snapshot stored before recompile() is not touched after it
HeldAfterCommand(held) == { held }

\* on_modified, lines 104-115, up to the subprocess of recompile() when a
\* change is found, and to its return when none is
on_modified ==
    /\ main_pc \in { "watching", "stopping" }
    /\ obs_pc = "idle"
    /\ pending > 0
    /\ pending' = pending - 1
    /\ \E local \in Snapshots(fs, excluded_file_extensions, excluded_folders) :
           LET scan == OuterLoop(local, dir_content_and_time, 1)
           IN  /\ dir_content_and_time' = scan.dir_content_and_time
               /\ recompiles' = scan.recompiles
               /\ advanced' = AdvancedPaths(local, dir_content_and_time)
               /\ IF scan.found
                  THEN /\ handled' = "changed"
                       /\ local_dir_content' = local
                       /\ obs_pc' = DuringCommand
                       /\ returncode' = -1
                       /\ running' = running + 1
                  ELSE /\ handled' = "unchanged"
                       /\ local_dir_content' = << >>
                       /\ obs_pc' = "idle"
                       /\ returncode' = returncode
                       /\ running' = running
    /\ UNCHANGED << inputs, config, main_pc, exit_status, snapshots, observers, fs >>

\* on_modified, line 106, when an entry that os.listdir() returned is gone by
\* the time line 74 stats it: the exception ends the dispatching thread
on_modified_raises ==
    /\ main_pc \in { "watching", "stopping" }
    /\ obs_pc = "idle"
    /\ pending > 0
    /\ pending' = pending - 1
    /\ \E n \in Listed(fs) :
           /\ Kept(n, excluded_file_extensions, excluded_folders)
           /\ fs' = [ fs EXCEPT ![n] = Absent ]
    /\ handled' = "raised"
    /\ recompiles' = 0
    /\ advanced' = {}
    /\ obs_pc' = "dead"
    /\ UNCHANGED << inputs, config, main_pc, exit_status, dir_content_and_time, snapshots,
                    observers, local_dir_content, returncode, running >>

\* recompile(), lines 89-98, from the end of the subprocess, and the return of
\* on_modified, lines 116-119
recompile_returns ==
    /\ main_pc # "exited"
    /\ obs_pc = "recompile"
    /\ running > 0
    /\ running' = running - 1
    /\ \E rc \in { 0, 1 } :
           /\ returncode' = rc
           /\ obs_pc' = AfterCommand(rc)
    /\ local_dir_content' = << >>
    /\ dir_content_and_time' \in HeldAfterCommand(dir_content_and_time)
    /\ UNCHANGED << inputs, config, main_pc, exit_status, snapshots,
                    observers, fs, pending, handled, recompiles, advanced >>

\* the end of a subprocess that no check_output waits for: the process has
\* ended (the observer's threads are daemon threads, exit() does not join
\* them) and the shell it started runs on
command_ends_unwaited ==
    /\ running > 0
    /\ main_pc = "exited" \/ obs_pc # "recompile"
    /\ running' = running - 1
    /\ UNCHANGED << inputs, config, main_pc, exit_status, dir_content_and_time, snapshots,
                    observers, fs, pending, obs_pc, local_dir_content, handled, recompiles,
                    advanced, returncode >>

(***************************************************************************)
(* The filesystem, changed by anyone (the command included) while the      *)
(* process runs. A change under the scheduled watch queues an event.       *)
(***************************************************************************)
Queued(n) == IF main_pc = "watching" THEN Min(n + 1, MaxPending) ELSE n

fs_modify ==
    /\ main_pc # "exited"
    /\ \E n \in Listed(fs) : \E t \in Times \ { fs[n] } : fs' = [ fs EXCEPT ![n] = t ]
    /\ pending' = Queued(pending)
    /\ UNCHANGED << inputs, config, main_pc, exit_status, dir_content_and_time, snapshots,
                    observers, obs_pc, local_dir_content, handled, recompiles, advanced, returncode,
                    running >>

fs_create ==
    /\ main_pc # "exited"
    /\ \E n \in Names \ Listed(fs), t \in Times : fs' = [ fs EXCEPT ![n] = t ]
    /\ pending' = Queued(pending)
    /\ UNCHANGED << inputs, config, main_pc, exit_status, dir_content_and_time, snapshots,
                    observers, obs_pc, local_dir_content, handled, recompiles, advanced, returncode,
                    running >>

fs_delete ==
    /\ main_pc # "exited"
    /\ \E n \in Listed(fs) : fs' = [ fs EXCEPT ![n] = Absent ]
    /\ pending' = Queued(pending)
    /\ UNCHANGED << inputs, config, main_pc, exit_status, dir_content_and_time, snapshots,
                    observers, obs_pc, local_dir_content, handled, recompiles, advanced, returncode,
                    running >>

\* an event that no change of a listed entry's time explains: a change deeper
\* in the recursive watch, or of metadata only
fs_event ==
    /\ main_pc = "watching"
    /\ pending < MaxPending
    /\ pending' = pending + 1
    /\ UNCHANGED << inputs, config, main_pc, exit_status, dir_content_and_time, snapshots,
                    observers, fs, obs_pc, local_dir_content, handled, recompiles,
                    advanced, returncode, running >>

Next ==
    \/ main_which
    \/ setup_config
    \/ main_snapshot
    \/ main_snapshot_raises
    \/ main_observe
    \/ main_interrupt
    \/ main_exit
    \/ main_interrupt_uncaught
    \/ on_modified
    \/ on_modified_raises
    \/ recompile_returns
    \/ command_ends_unwaited
    \/ fs_modify
    \/ fs_create
    \/ fs_delete
    \/ fs_event

Spec == Init /\ [][Next]_vars
(***************************************************************************)
(* The configuration alone: setup_config over every exclusion string of    *)
(* at most MaxLen characters.                                              *)
(***************************************************************************)
ExclusionAlphabet == { ".", ",", "a" }
ExclusionStrings == UNION { [1..n -> ExclusionAlphabet] : n \in 0..MaxLen }

InitConfig ==
    /\ env_path \in PathInputs
    /\ argv_exclusions \in ExclusionStrings \cup { DefaultExclusions, PdfBuildExclusions }
    /\ argv_options \in OptionInputs
    /\ InitProcess

NextConfig ==
    \/ main_which
    \/ setup_config

SpecConfig == InitConfig /\ [][NextConfig]_vars

(***************************************************************************)
(* The enumerator alone: two calls of watched_elements() over a directory  *)
(* that nothing changes, each with the order os.listdir() gives it.        *)
(***************************************************************************)
Dirs == [Names -> Times \cup { Absent }]

InitEnum ==
    /\ env_path = << FALSE, TRUE >>
    /\ argv_exclusions \in { DefaultExclusions, PdfBuildExclusions }
    /\ argv_options = << << "-", "o" >>, << "x" >> >>
    /\ main_pc = "enumerate"
    /\ exit_status = -1
    /\ command = PandocCommand(PandocOptions(argv_options))
    /\ dir_content_and_time = << >>
    /\ excluded_file_extensions = ExtensionsOf(Split(argv_exclusions, ","))
    /\ excluded_folders =
           FoldersOf(Split(argv_exclusions, ","), ExtensionsOf(Split(argv_exclusions, ",")))
    /\ snapshots = 0
    /\ observers = 0
    /\ fs \in Dirs
    /\ pending = 0
    /\ obs_pc = "none"
    /\ local_dir_content = << >>
    /\ handled = "none"
    /\ recompiles = 0
    /\ advanced = {}
    /\ returncode = -1
    /\ running = 0

\* config.dir_content_and_time = config.watched_elements(), as on line 180
enumerate_held ==
    /\ main_pc = "enumerate"
    /\ snapshots = 0
    /\ dir_content_and_time' \in Snapshots(fs, excluded_file_extensions, excluded_folders)
    /\ snapshots' = 1
    /\ UNCHANGED << inputs, config, main_pc, exit_status, observers, fs, handler >>

\* local_dir_content = config.watched_elements(), as on line 106
enumerate_local ==
    /\ main_pc = "enumerate"
    /\ snapshots = 1
    /\ local_dir_content' \in Snapshots(fs, excluded_file_extensions, excluded_folders)
    /\ snapshots' = 2
    /\ UNCHANGED << inputs, config, main_pc, exit_status, dir_content_and_time, observers,
                    fs, pending, obs_pc, handled, recompiles, advanced, returncode, running >>

NextEnum ==
    \/ enumerate_held
    \/ enumerate_local

SpecEnum == InitEnum /\ [][NextEnum]_vars

(***************************************************************************)
(* Vocabulary of the properties.                                           *)
(***************************************************************************)
\* the names the held snapshot tracks
HeldNames == { dir_content_and_time[i][1] : i \in 1..Len(dir_content_and_time) }

\* the time the held snapshot records for a name it tracks
HeldTime(n) ==
    LET i == CHOOSE k \in 1..Len(dir_content_and_time) : dir_content_and_time[k][1] = n
    IN  dir_content_and_time[i][2]

\* the pairs a snapshot taken now holds, whatever the order of the listing
FreshSnapshot ==
    { << n, fs[n] >> : n \in { m \in Listed(fs) :
                                 Kept(m, excluded_file_extensions, excluded_folders) } }

\* an entry of both snapshots whose time is strictly greater in the fresh one
QualifyingChange ==
    \E p \in Range(dir_content_and_time), q \in FreshSnapshot :
        p[1] = q[1] /\ q[2] > p[2]

\* the tokens of the --exclude value
ExclusionTokens == Range(Split(argv_exclusions, ","))

\* an entry the command line excludes: its name ends in an excluded
\* extension or is an excluded name
Excluded(n) ==
    \E token \in ExclusionTokens :
        IF StartsWithDot(token) THEN EndsWith(n, token) ELSE n = token

\* a step in which on_modified handles one notification
Dispatched == pending' = pending - 1 /\ handled' \in { "changed", "unchanged" }

\* a step in which the command is started
CommandStarts == obs_pc # "recompile" /\ obs_pc' = "recompile"

\* the last notification was handled after the last change of the directory
Settled == main_pc = "watching" /\ obs_pc = "idle" /\ pending = 0
(***************************************************************************)
(* Properties.                                                             *)
(***************************************************************************)

\* C1: whenever on_modified handles a notification and some entry of both the
\* held and the fresh snapshot has a strictly greater time in the fresh one,
\* that call makes exactly one recompile() call, however many entries
\* advanced: the command is started in that step, and no further call is made
\* while it runs or when it returns.
C1_ExactlyOneRecompile ==
    /\ [][ (Dispatched /\ QualifyingChange)
              => (recompiles' = 1 /\ handled' = "changed" /\ CommandStarts) ]_vars
    /\ [][ obs_pc = "recompile" => recompiles' = recompiles ]_vars

\* C1 witness: the command runs, started once by a notification that found
\* both a.md and B.PDF advanced from 0 to 1.
C1_Witness_SeveralAdvanced ==
    /\ obs_pc = "recompile"
    /\ recompiles = 1
    /\ handled = "changed"
    /\ advanced = { a_md, B_PDF }
    /\ Range(dir_content_and_time) = { << a_md, 1 >>, << B_PDF, 1 >> }

\* C2: whenever on_modified handles a notification and no entry of the held
\* snapshot has a strictly greater time in the fresh snapshot, the call
\* changes nothing: no recompile() call, no command started, and the held
\* snapshot, the configuration and the main thread are as before.
C2_NoChangeNoEffect ==
    [][ (Dispatched /\ ~QualifyingChange)
           => /\ dir_content_and_time' = dir_content_and_time
              /\ recompiles' = 0
              /\ handled' = "unchanged"
              /\ obs_pc' = obs_pc
              /\ UNCHANGED << config, main_pc, exit_status, fs >> ]_vars

\* C2 witness: the last notification was handled after the last change and
\* found nothing, while a.md is older than the held snapshot records and
\* B.PDF is listed but not tracked.
C2_Witness_LowerAndNew ==
    /\ Settled
    /\ handled = "unchanged"
    /\ dir_content_and_time = << << a_md, 1 >> >>
    /\ fs[a_md] = 0
    /\ fs[B_PDF] = 1

\* C3: the command is started only when an entry that the command line does
\* not exclude is tracked and has advanced; a change of an excluded entry's
\* time is never what starts it.
C3_ExcludedNeverTriggers ==
    [][ CommandStarts
           => \E n \in Names :
                  /\ ~Excluded(n)
                  /\ n \in HeldNames
                  /\ fs[n] # Absent
                  /\ fs[n] > HeldTime(n) ]_vars

\* C3 witness: with -e .pdf,build and a.md tracked at its current time, b.pdf
\* and build have gone from 0 to 1, and the notification handled after the
\* last change found nothing.
C3_Witness_OnlyExcludedChanged ==
    /\ Settled
    /\ handled = "unchanged"
    /\ argv_exclusions = PdfBuildExclusions
    /\ dir_content_and_time = << << a_md, 1 >> >>
    /\ fs = [ n \in Names |-> IF n = B_PDF THEN Absent ELSE 1 ]

\* C4: once the first snapshot is held, a name enters the held snapshot only
\* in a step where an entry already tracked has advanced and the command is
\* started; and the command is started only for an advance of an entry
\* already tracked.
C4_UntrackedNeverTriggers ==
    /\ [][ (snapshots > 0 /\ HeldNames' \ HeldNames # {})
              => /\ CommandStarts
                 /\ \E m \in HeldNames : fs[m] # Absent /\ fs[m] > HeldTime(m) ]_vars
    /\ [][ CommandStarts
              => \E m \in HeldNames : fs[m] # Absent /\ fs[m] > HeldTime(m) ]_vars

\* C4 witness: B.PDF is listed and not tracked, its time is above every time
\* the snapshot holds, and the notification handled after the last change
\* found nothing.
C4_Witness_NewEntryIgnored ==
    /\ Settled
    /\ handled = "unchanged"
    /\ dir_content_and_time = << << a_md, 0 >> >>
    /\ fs[a_md] = 0
    /\ fs[B_PDF] = 1

\* C5: when the command ends with a non-zero status, the dispatching thread
\* returns to waiting for events, the process keeps running, and the held
\* snapshot is the fresh snapshot of that notification; after a failure the
\* command is started again only by a notification that finds a qualifying
\* change.
C5_FailureKeepsWatching ==
    /\ [][ (obs_pc = "recompile" /\ returncode' > 0)
              => /\ obs_pc' = "idle"
                 /\ dir_content_and_time' = local_dir_content
                 /\ UNCHANGED << main_pc, exit_status, pending >> ]_vars
    /\ [][ (returncode > 0 /\ CommandStarts) => (Dispatched /\ QualifyingChange) ]_vars

\* C5 witness: the command started for a.md has ended with status 1, the
\* thread waits for events again and the process still watches.
C5_Witness_FailedThenWatching ==
    /\ main_pc = "watching"
    /\ obs_pc = "idle"
    /\ returncode = 1
    /\ handled = "changed"
    /\ dir_content_and_time = << << a_md, 1 >> >>

\* a pre-flight check fails: which() finds no pandoc, or no option is left
PreflightFails ==
    \/ which(env_path, 1) = 0
    \/ PandocOptions(argv_options) = << >>

\* C6: when a pre-flight check fails, main() never gets past setup_config:
\* no snapshot is taken, no observer is scheduled and no command is run.
C6_PreflightFailureDoesNothing ==
    PreflightFails
        => /\ main_pc \in { "which", "setup", "exited" }
           /\ snapshots = 0
           /\ dir_content_and_time = << >>
           /\ observers = 0
           /\ obs_pc = "none"
           /\ recompiles = 0
           /\ handled = "none"

\* C6 witness: pandoc is on the PATH, the only argument is empty, and the
\* process has exited from setup_config.
C6_Witness_NoOptionsExit ==
    /\ main_pc = "exited"
    /\ exit_status = exit
    /\ which(env_path, 1) # 0
    /\ argv_options = << << >> >>
    /\ excluded_file_extensions # << >>

\* C7: a process that ended on a failed pre-flight check has a non-zero exit
\* status.
C7_PreflightExitNonZero ==
    (main_pc = "exited" /\ PreflightFails) => exit_status # 0

\* setup_config has run
SetupRan ==
    \/ main_pc = "snapshot"
    \/ main_pc = "exited" /\ which(env_path, 1) # 0

\* C8: after setup_config, the excluded extensions are the tokens that start
\* with ".", the excluded extensions and the excluded names are disjoint, and
\* together they are the tokens.
C8_ExclusionsPartitioned ==
    SetupRan
        => /\ Range(excluded_file_extensions)
                  = { token \in ExclusionTokens : StartsWithDot(token) }
           /\ Range(excluded_file_extensions) \cap excluded_folders = {}
           /\ Range(excluded_file_extensions) \cup excluded_folders = ExclusionTokens

\* C8 witness: -e ".,,." has the token "." twice and an empty token.
C8_Witness_DuplicateAndEmpty ==
    /\ SetupRan
    /\ argv_exclusions = << ".", ",", ",", "." >>
    /\ excluded_file_extensions = << << "." >>, << "." >> >>
    /\ excluded_folders = { << >> }

\* C9: at most one observer is ever scheduled; once the interrupt is caught
\* the main thread only goes on to the exit, schedules no observer and
\* queues no event; and an ended process stays ended.
C9_OneWatchSession ==
    /\ [](observers <= 1)
    /\ [][ (main_pc \in { "stopping", "exited" })
              => /\ main_pc' \in { "stopping", "exited" }
                 /\ observers' = observers
                 /\ pending' <= pending ]_vars
    /\ [][ main_pc = "exited" => main_pc' = "exited" ]_vars

\* C9 witness: the process watched, was interrupted and has exited.
C9_Witness_InterruptedAndExited ==
    /\ main_pc = "exited"
    /\ exit_status = exit
    /\ observers = 1
    /\ obs_pc # "none"

\* C10: two calls of watched_elements() over the same directory and the same
\* exclusions return the same set of pairs, whatever order os.listdir() gave
\* each.
C10_EnumerationIdempotent ==
    snapshots = 2 => Range(dir_content_and_time) = Range(local_dir_content)

\* C10 witness: the two calls listed the directory in different orders.
C10_Witness_TwoOrders ==
    /\ snapshots = 2
    /\ Len(dir_content_and_time) >= 2
    /\ dir_content_and_time # local_dir_content

\* the lower-case form of a character of the names
LowerChar(c) ==
    CASE c = "B" -> "b"
      [] c = "P" -> "p"
      [] c = "D" -> "d"
      [] c = "F" -> "f"
      [] OTHER   -> c

\* the lower-case form of a name
Lower(s) == [ i \in 1..Len(s) |-> LowerChar(s[i]) ]

\* the extension of a name: from its last dot on, empty when the name has no
\* dot or only leading ones
Extension(n) ==
    LET dots == { i \in 1..Len(n) : n[i] = "." }
        last == CHOOSE i \in dots : \A j \in dots : j <= i
    IN  IF dots = {} \/ (\A j \in 1..(last - 1) : n[j] = ".")
        THEN << >>
        ELSE SubSeq(n, last, Len(n))

\* an entry whose lower-cased extension is an excluded extension, or whose
\* name is an excluded name
ExcludedLowerCased(n) ==
    \E token \in ExclusionTokens :
        IF StartsWithDot(token) THEN Lower(Extension(n)) = token ELSE n = token

\* C11: the snapshot watched_elements() returns holds exactly the listed
\* entries whose lower-cased extension is no excluded extension and whose name
\* is no excluded name: B.PDF is omitted when .pdf is excluded, and nothing
\* else is omitted.
C11_LowerCasedExtensionExcluded ==
    snapshots >= 1
        => HeldNames = { n \in Listed(fs) : ~ExcludedLowerCased(n) }

\* C12: a call of on_modified in which a listed entry is gone before
\* os.stat() reads its time skips that entry and completes over the others:
\* no call is ended by the failure, and the thread that makes the calls goes
\* on handling notifications.
C12_VanishedEntrySkipped == handled # "raised" /\ obs_pc # "dead"

\* C13: at most one on_modified call, and so at most one command, is in
\* flight: one observer thread makes the calls, a command is started only by
\* a call made while none runs, and while a command runs no notification is
\* handled, the held snapshot is left alone and the queue only grows.
C13_OneCallbackInFlight ==
    /\ [](running <= 1 /\ observers <= 1)
    /\ [][ running' > running => (running = 0 /\ Dispatched) ]_vars
    /\ [][ (running > 0 /\ main_pc # "exited")
              => /\ ~Dispatched
                 /\ pending' >= pending
                 /\ dir_content_and_time' = dir_content_and_time ]_vars

\* C13 witness: a notification is queued while the command runs, and the
\* thread is still inside recompile().
C13_Witness_QueuedWhileRunning ==
    /\ main_pc = "watching"
    /\ obs_pc = "recompile"
    /\ running = 1
    /\ pending = 1
    /\ a_md \in HeldNames
    /\ fs[a_md] > HeldTime(a_md)

\* C14: a process ended after the interrupt was caught has left no command
\* running: exit() is not reached before the subprocess of a recompile() in
\* progress has ended.
C14_ExitWaitsForCommand ==
    (main_pc = "exited" /\ observers = 1 /\ exit_status = exit) => running = 0

\* C15: from the initial snapshot on, no pair of the held snapshot names an
\* entry that ends with an excluded extension or is an excluded name, and no
\* two pairs have the same name.
C15_HeldOnlyWatched ==
    snapshots >= 1
        => /\ \A i \in 1..Len(dir_content_and_time) : ~Excluded(dir_content_and_time[i][1])
           /\ \A i, j \in 1..Len(dir_content_and_time) :
                  dir_content_and_time[i][1] = dir_content_and_time[j][1] => i = j

\* C15 witness: on_modified has stored a snapshot of two pairs while b.pdf and
\* build, both excluded, are in the directory.
C15_Witness_ExcludedPresent ==
    /\ snapshots = 1
    /\ handled = "changed"
    /\ Len(dir_content_and_time) = 2
    /\ fs[b_pdf] # Absent
    /\ fs[build] # Absent

\* the pairs of the entries now in the directory that the command line does
\* not exclude
FreshWatched == { << n, fs[n] >> : n \in { m \in Listed(fs) : ~Excluded(m) } }

\* C16: a call of on_modified that finds a qualifying change leaves as held
\* snapshot the fresh one, whole: one pair for each watched entry now in the
\* directory, with its time of now, and no pair for an entry that is gone.
C16_ReplacedWholesale ==
    [][ (Dispatched /\ QualifyingChange)
           => /\ Range(dir_content_and_time') = FreshWatched
              /\ Len(dir_content_and_time') = Cardinality(FreshWatched)
              /\ dir_content_and_time' = local_dir_content' ]_vars

\* C16 witness: only a.md advanced, and the snapshot stored holds B.PDF too,
\* which did not trigger, with its time.
C16_Witness_AllPairsFresh ==
    /\ obs_pc = "recompile"
    /\ handled = "changed"
    /\ advanced = { a_md }
    /\ dir_content_and_time = local_dir_content
    /\ Range(dir_content_and_time) = { << a_md, 1 >>, << B_PDF, 0 >> }

\* an entry of the held snapshot has a greater time in the directory (the
\* time of an entry that is gone, Absent, is greater than none)
HeldAdvanced ==
    \E i \in 1..Len(dir_content_and_time) :
        fs[dir_content_and_time[i][1]] > dir_content_and_time[i][2]

\* C17: a notification handled leaves no entry of the held snapshot older
\* than the directory, whether it started the command or not; and as long as
\* nothing in the directory changes, by the command or anyone else, none
\* becomes older and no command is started, however many notifications are
\* handled. So after the last
\* modification has had its recompilation the watcher starts no other.
C17_QuiescesAfterBurst ==
    /\ [][ Dispatched => ~HeldAdvanced' ]_vars
    /\ [][ (fs' = fs /\ ~HeldAdvanced)
              => (~HeldAdvanced' /\ ~CommandStarts /\ running' <= running) ]_vars

\* C17 witness: a command ran and ended with status 0, a later notification
\* was handled and started nothing, and none is queued.
C17_Witness_QuietAfterRecompile ==
    /\ Settled
    /\ handled = "unchanged"
    /\ returncode = 0
    /\ running = 0
    /\ ~HeldAdvanced
    /\ Range(dir_content_and_time) = { << a_md, 1 >>, << B_PDF, 1 >> }

\* a step in which recompile() returns
CommandReturns == obs_pc = "recompile" /\ obs_pc' = "idle"

\* C18: when the command is started the held snapshot already is the fresh
\* one, with the times read before the command; it is not touched while the
\* command runs nor when recompile() returns. So an entry of it whose time
\* advanced during the run is still advanced after the return, and the next
\* notification handled starts the command again; this holds of every round.
C18_SnapshotPrecedesCommand ==
    /\ [][ running' > running => Range(dir_content_and_time') = FreshWatched ]_vars
    /\ [][ running > 0 => dir_content_and_time' = dir_content_and_time ]_vars
    /\ [][ (CommandReturns /\ HeldAdvanced) => HeldAdvanced' ]_vars
    /\ [][ (Dispatched /\ HeldAdvanced) => running' = running + 1 ]_vars

\* C18 witness: the command that B.PDF triggered has returned, the held
\* snapshot still has a.md at the time read before it ran, the directory has
\* it later, and a notification is queued.
C18_Witness_AdvancedAfterReturn ==
    /\ main_pc = "watching"
    /\ obs_pc = "idle"
    /\ handled = "changed"
    /\ advanced = { B_PDF }
    /\ returncode = 0
    /\ pending = 1
    /\ a_md \in HeldNames
    /\ HeldTime(a_md) = 0
    /\ fs[a_md] = 1

\* C19: no change to a tracked entry is lost. While the process watches, an
\* entry of the held snapshot whose time has advanced still gets a
\* recompilation started after the change; so the thread that makes the
\* on_modified calls, the only one that starts the command, has not ended.
C19_NoChangeLost ==
    (main_pc = "watching" /\ HeldAdvanced) => obs_pc # "dead"
====
